---------------------------- MODULE Spec2Model ----------------------------
(***************************************************************************)
(* Image ingestion, classification and downscaling of                      *)
(* platform/wab/src/wab/client/dom-utils.ts.                               *)
(*                                                                         *)
(* One behaviour is one pass of the pipeline: an ingestion entry point     *)
(* (readAndSanitizeFileAsImage or readAndSanitizeSvgXmlAsImage) followed   *)
(* by maybeUploadImage on the image the ingestion returned.  Every await   *)
(* of the source is a step of its own; the environment (file reader,       *)
(* remote API, image decoder, downscale routine) settles it either way.    *)
(***************************************************************************)
EXTENDS Integers, Sequences, FiniteSets, TLC

----------------------------------------------------------------------------
(* Bounds of the model *)

\* number of distinct literal colors an SVG document may reference
MaxColors == 2
\* how far around MaxImageDim the measured dimensions range
DimSlack == 1

----------------------------------------------------------------------------
(* Program constants *)

MaxImageDim == 4096
DownscaleImageSizeThreshold == 4 * 1024 * 1024

SVG_MEDIA_TYPE == "image/svg+xml"
SVG_CONTENT_TYPE == SVG_MEDIA_TYPE

Icon == "icon"
Picture == "picture"
\* opts.type left out by the caller
NoType == "undefined"
ImageAssetTypes == {NoType, Icon, Picture}

\* the JavaScript value undefined, where a record is expected
Undefined == [undefined |-> TRUE]

----------------------------------------------------------------------------
(* Values *)

currentcolor == [form |-> "currentcolor", id |-> 0]
LiteralColors == {[form |-> "literal", id |-> i] : i \in 1..MaxColors}
UrlColors == {[form |-> "url", id |-> 1]}
Colors == {currentcolor} \cup LiteralColors \cup UrlColors

\* v.startsWith("url")
startsWithUrl(v) == v.form = "url"

\* lengths of an encoded payload, on both sides of the threshold
Lens == {DownscaleImageSizeThreshold - 1, DownscaleImageSizeThreshold}

\* pixel dimensions an image decodes to
Dims == {2000, 5000} \cup ((MaxImageDim - DimSlack)..(MaxImageDim + DimSlack))
\* pixel dimensions of a downscaled image
DownscaledDims == {2000, MaxImageDim}

\* An SVG document: the colors its elements reference (what gatherSvgColors
\* collects), whether convertSvgToTextSized and clearExplicitColors have
\* been applied to it, and the length of its data URL.
SvgDocs == [colors : SUBSET Colors, textSized : {FALSE}, cleared : {FALSE},
            len : Lens]

\* A URL string.  kind: "svg" is a data URL whose media type is exactly
\* image/svg+xml; "svgParams" one whose media type carries parameters
\* (image/svg+xml;charset=utf-8); "other" a data URL of another type;
\* "opaque" a string parse-data-url does not parse.
PlainUrl(k, l) ==
    [kind |-> k, colors |-> {}, textSized |-> FALSE, cleared |-> FALSE,
     len |-> l]
InputUrls ==
    {PlainUrl(k, l) : k \in {"svg", "other", "opaque"}, l \in Lens}
      \cup [kind : {"svgParams"}, colors : SUBSET Colors, textSized : {FALSE},
            cleared : {FALSE}, len : Lens]

\* parseDataUrl(url) of parse-data-url
parseDataUrl(u) ==
    CASE u = Undefined -> Undefined
      [] u.kind = "svg" ->
           [mediaType |-> "image/svg+xml", contentType |-> "image/svg+xml"]
      [] u.kind = "svgParams" ->
           [mediaType |-> "image/svg+xml;charset=utf-8",
            contentType |-> "image/svg+xml"]
      [] u.kind = "other" ->
           [mediaType |-> "image/png", contentType |-> "image/png"]
      [] OTHER -> Undefined

\* asSvgDataUrl(xml)
asSvgDataUrl(xml) ==
    [kind |-> "svg", colors |-> xml.colors, textSized |-> xml.textSized,
     cleared |-> xml.cleared, len |-> xml.len]

\* getParsedDataUrlData(parsed) / parseSvgXml(atob(parsed.data))
parseSvgXml(u) ==
    [colors |-> u.colors, textSized |-> u.textSized, cleared |-> u.cleared,
     len |-> u.len]

\* gatherSvgColors(svgElt)
gatherSvgColors(svgElt) == svgElt.colors

NoRatio == [undefined |-> TRUE]
SomeRatio == [ratio |-> 2, scaled |-> FALSE]

\* new ResizableImage(url, width, height, aspectRatio)
ResizableImage(u, w, h, ar) ==
    [url |-> u, width |-> w, height |-> h, aspectRatio |-> ar]

\* ResizableImage.scaledRoundedAspectRatio
scaledRoundedAspectRatio(img) ==
    IF img.aspectRatio # NoRatio
      THEN [ratio |-> img.aspectRatio.ratio, scaled |-> TRUE]
      ELSE img.aspectRatio

\* ResizableImage.actualAspectRatio
actualAspectRatio(img) == img.aspectRatio

----------------------------------------------------------------------------
(* deriveImageAssetTypeAndUri *)

ErrLoading == "Error loading image"
ErrOneColor == "Can only use svg images with one color as icons"
ErrSvgOnly == "Can only use svg images as icons"

\* shouldBeIcon without the check for url(...) references
shouldBeIcon_NoUrlCheck(type, colors) ==
    \/ type = Icon
    \/ currentcolor \in colors
    \/ Cardinality(colors) <= 1

shouldBeIcon(type, colors) ==
    \/ type = Icon
    \/ currentcolor \in colors
    \/ /\ Cardinality(colors) <= 1
       /\ \/ Cardinality(colors) = 0
          \/ \A v \in colors : ~startsWithUrl(v)

\* the guard without the bound on the number of colors
shouldClearExplicitColors_AnySize(colors) == currentcolor \notin colors

\* the guard of the clearExplicitColors(svgElt) call
shouldClearExplicitColors(colors) ==
    currentcolor \notin colors /\ Cardinality(colors) <= 1

\* iconColor without the comparison against "currentcolor"
iconColorOf_KeepsCurrentColor(colors) ==
    IF Cardinality(colors) = 1
      THEN CHOOSE v \in colors : TRUE
      ELSE Undefined

\* colors.size === 1 ? [...colors.values()][0] : undefined, then
\* color === "currentcolor" ? undefined : color
iconColorOf(colors) ==
    IF Cardinality(colors) = 1
      THEN LET color == CHOOSE v \in colors : TRUE
           IN  IF color = currentcolor THEN Undefined ELSE color
      ELSE Undefined

\* the multi-colored branch handing out the re-serialized svg
multiColoredSvg_Rewritten(dataUri, type) ==
    IF type = NoType
      THEN [res |-> [dataUri |-> [dataUri EXCEPT !.textSized = TRUE],
                     type |-> Picture, iconColor |-> Undefined],
            notes |-> <<>>]
      ELSE [res |-> Undefined, notes |-> <<ErrOneColor>>]

\* the branch taken for svg content that should not be an icon
multiColoredSvg(dataUri, type) ==
    IF type = NoType
      THEN [res |-> [dataUri |-> dataUri, type |-> Picture,
                     iconColor |-> Undefined],
            notes |-> <<>>]
      ELSE [res |-> Undefined, notes |-> <<ErrOneColor>>]

\* the non-svg branch ignoring the requested type
nonSvg_IgnoresType(dataUri, type) ==
    [res |-> [dataUri |-> dataUri, type |-> Picture, iconColor |-> Undefined],
     notes |-> <<>>]

\* the branch taken for content that is not svg
nonSvg(dataUri, type) ==
    IF type = NoType
      THEN [res |-> [dataUri |-> dataUri, type |-> Picture,
                     iconColor |-> Undefined],
            notes |-> <<>>]
      ELSE [res |-> Undefined, notes |-> <<ErrSvgOnly>>]

\* deriveImageAssetTypeAndUri(image, {type}); newLen is the length of the
\* data URL the XMLSerializer output encodes to.  The result is the returned
\* value together with the notification.error messages emitted.
deriveImageAssetTypeAndUri(image, type, newLen) ==
    LET dataUri == image.url
        parsed == parseDataUrl(dataUri)
    IN  IF parsed = Undefined
          THEN [res |-> Undefined, notes |-> <<ErrLoading>>]
        ELSE IF type = Picture
          THEN [res |-> [dataUri |-> dataUri, type |-> type,
                         iconColor |-> Undefined],
                notes |-> <<>>]
        ELSE IF parsed.contentType = SVG_CONTENT_TYPE
          THEN LET svgElt == parseSvgXml(dataUri)
                   colors == gatherSvgColors(svgElt)
               IN  IF shouldBeIcon(type, colors)
                     THEN LET sized == [svgElt EXCEPT !.textSized = TRUE,
                                                      !.len = newLen]
                              out == IF shouldClearExplicitColors(colors)
                                       THEN [sized EXCEPT !.cleared = TRUE]
                                       ELSE sized
                          IN  [res |-> [dataUri |-> asSvgDataUrl(out),
                                        type |-> Icon,
                                        iconColor |-> iconColorOf(colors)],
                               notes |-> <<>>]
                     ELSE multiColoredSvg(dataUri, type)
        ELSE nonSvg(dataUri, type)

----------------------------------------------------------------------------
(* Answers of the environment *)

\* appCtx.api.processSvg({svgXml}) resolves with one of these
ProcessSvgResponses ==
    {[status |-> "failure"]}
      \cup {[status |-> "success", result |-> [xml |-> d, aspectRatio |-> a]] :
              d \in SvgDocs, a \in {NoRatio, SomeRatio}}

\* deriveImageSize(url) resolves with one of these
ImageSizes == [width : Dims, height : Dims]
DownscaledSizes == [width : DownscaledDims, height : DownscaledDims]

\* downscale(url, targetWidth, targetHeight) resolves with one of these
DownscaledUrls == {PlainUrl("other", l) : l \in Lens}

\* appCtx.api.uploadImageFile({imageFile}) resolves with one of these
UploadedImages ==
    [dataUri : {PlainUrl("opaque", DownscaleImageSizeThreshold - 1)},
     size : {Undefined} \cup [width : {2000}, height : {2000}],
     aspectRatio : {NoRatio, SomeRatio},
     warning : BOOLEAN]

----------------------------------------------------------------------------
(* ResizableImage.tryDownscale, the synchronous part *)

\* the early return with inclusive comparisons
skipDownscale_Inclusive(img) ==
    /\ img.width <= MaxImageDim
    /\ img.height <= MaxImageDim
    /\ img.url.len <= DownscaleImageSizeThreshold

\* the condition of the early return
skipDownscale(img) ==
    /\ img.width < MaxImageDim
    /\ img.height < MaxImageDim
    /\ img.url.len < DownscaleImageSizeThreshold

Min(a, b) == IF a < b THEN a ELSE b

\* targetWidth with >= in place of >
targetWidth_GreaterOrEqual(img) ==
    IF img.width >= img.height THEN Min(img.width, MaxImageDim) ELSE 0

targetWidth(img) ==
    IF img.width > img.height THEN Min(img.width, MaxImageDim) ELSE 0

targetHeight(img) ==
    IF img.width <= img.height THEN Min(img.height, MaxImageDim) ELSE 0

----------------------------------------------------------------------------
(* State *)

VARIABLES
    pc,             \* where the pass stands
    entry,          \* "file", "dataUrl" (readAndSanitizeFileAsImage) or "svgXml"
    input,          \* the file's content, the data URL or the svg text
    url,            \* the sanitized url
    size,           \* the size derived from url
    ingested,       \* what the ingestion returned: Pending, Undefined or the image
    type,           \* the type maybeUploadImage is called with
    res,            \* the result of deriveImageAssetTypeAndUri
    imageResult,    \* maybeUploadImage's imageResult
    before,         \* imageResult as it was when tryDownscale was called
    target,         \* the target handed to downscale
    caught,         \* tryDownscale's catch block ran
    notifications,  \* messages shown through notification.error / .warn
    log,            \* the calls made so far, in order
    imageFile,      \* the blob handed to appCtx.api.uploadImageFile
    clipboard,      \* the DataTransfer readImageFromClipboard is called with
    gif,            \* the GIF isAnimatedGif is called with
    gifResult,      \* what isAnimatedGif returned
    nCalls,         \* getUploadedFile has been called that many times
    nChanges,       \* change events of the file input so far
    files,          \* the selection of the file input, "" when empty
    handlers,       \* the calls whose handleFileChange is bound to "change"
    reading,        \* per call, handlers awaiting readUploadedFileAsText
    consuming,      \* per call, handlers awaiting f(data)
    invoked,        \* per call, how often its consumer f was invoked
    finished,       \* per call, handlers that ran to their end or threw
    observed,       \* the element the hook's observer observes, or NoDom
    displayed,      \* per element, whether it has an offsetParent
    wasVisibleRef,  \* wasVisibleRef.current
    callbackArgs,   \* the arguments of the callback invocations, in order
    observations    \* what each observer notification saw, in order

pipelineVars ==
    <<pc, entry, input, url, size, ingested, type, res, imageResult,
      before, target, caught, notifications, log, imageFile, clipboard>>
gifVars == <<gif, gifResult>>
fileInputVars == <<nCalls, nChanges, files, handlers, reading, consuming,
                   invoked, finished>>
hookVars == <<observed, displayed, wasVisibleRef, callbackArgs, observations>>
\* the state the image pipeline does not touch
outsidePipeline == <<gifVars, fileInputVars, hookVars>>
vars == <<pipelineVars, outsidePipeline>>

\* the ingestion has not returned yet
Pending == [pending |-> TRUE]
NoSize == [width |-> 0, height |-> 0]
NoTarget == [targetWidth |-> 0, targetHeight |-> 0, called |-> FALSE]

\* clipboardData.getData("text/plain"): nothing, svg markup with or without
\* an xmlns attribute, or text without an <svg tag
TextContents == {"", "svgNs", "svgNoNs", "plain"}

\* The DataTransfer: whether an item of an image type exists, what its
\* getAsFile() gives (Undefined for null), and the plain text it carries.
Clipboards ==
    [imageItem : {TRUE},
     blob : {Undefined} \cup
              {PlainUrl(k, DownscaleImageSizeThreshold - 1) :
                 k \in {"svg", "other"}},
     text : {"svgNoNs"}]
      \cup [imageItem : {FALSE}, blob : {Undefined}, text : TextContents]

\* isAnimatedGif is not being called
NoGif == [undefined |-> TRUE]
GifIdle == gif = NoGif /\ gifResult = "idle"

\* number of getUploadedFile calls of a behaviour
MaxUploadCalls == 2
\* number of change events of a behaviour
MaxChangeEvents == 3
UploadCalls == 1..MaxUploadCalls

\* getUploadedFile has not been called
FileInputIdle ==
    /\ nCalls = 0 /\ nChanges = 0 /\ files = "" /\ handlers = {}
    /\ reading = [c \in UploadCalls |-> 0]
    /\ consuming = [c \in UploadCalls |-> 0]
    /\ invoked = [c \in UploadCalls |-> 0]
    /\ finished = [c \in UploadCalls |-> 0]

\* number of observer notifications of a behaviour
MaxNotifications == 4
Doms == {"dom1", "dom2"}
\* getDom() gave null or undefined
NoDom == "null"

\* no component uses the hook
HookIdle ==
    /\ observed = NoDom
    /\ displayed = [d \in Doms |-> FALSE]
    /\ wasVisibleRef = FALSE
    /\ callbackArgs = <<>>
    /\ observations = <<>>

Init ==
    /\ \/ /\ pc = "start"
          /\ clipboard = Undefined
          /\ \/ entry \in {"file", "dataUrl"} /\ input \in InputUrls
             \/ entry = "svgXml" /\ input \in {PlainUrl("xml", l) : l \in Lens}
       \/ /\ pc = "clipboard"
          /\ clipboard \in Clipboards
          /\ entry = "clipboard"
          /\ input = Undefined
    /\ imageFile = Undefined
    /\ url = Undefined
    /\ size = NoSize
    /\ ingested = Pending
    /\ type = NoType
    /\ res = Undefined
    /\ imageResult = Undefined
    /\ before = Undefined
    /\ target = NoTarget
    /\ caught = FALSE
    /\ notifications = <<>>
    /\ log = <<>>
    /\ GifIdle
    /\ FileInputIdle
    /\ HookIdle

----------------------------------------------------------------------------
(* readAndSanitizeFileAsImage *)

\* the ingestion going on after a failed sanitization
stopAfterSanitize_Never(u) == FALSE

\* `if (!url) return undefined`
stopAfterSanitize(u) == u = Undefined

\* isString(fileOrDataUrl) ? fileOrDataUrl : await readUploadedFileAsDataUrl(..)
ReadUploadedFileAsDataUrl ==
    /\ pc = "start" /\ entry \in {"file", "dataUrl"}
    /\ \/ /\ entry = "dataUrl"
          /\ pc' = "sanitize"
          /\ log' = log
       \/ /\ entry = "file"
          /\ log' = Append(log, "readUploadedFileAsDataUrl")
          /\ \/ pc' = "sanitize"      \* r.onload
             \/ pc' = "rejected"      \* r.onerror
    /\ UNCHANGED <<imageFile, clipboard, outsidePipeline>>
    /\ UNCHANGED <<entry, input, url, size, ingested, type, res, imageResult,
                   before, target, caught, notifications>>

\* sanitizeImageDataUrl / asSanitizedSvgUrl, then the `if (!url)` of the caller
SanitizeImageDataUrl ==
    /\ pc = "sanitize"
    /\ LET parsed == parseDataUrl(input)
       IN  IF parsed # Undefined /\ parsed.mediaType = SVG_MEDIA_TYPE
             THEN /\ log' = log \o <<"sanitizeImageDataUrl", "processSvg">>
                  /\ \/ \E processed \in ProcessSvgResponses :
                          /\ url' = IF processed.status = "failure"
                                      THEN Undefined
                                      ELSE asSvgDataUrl(processed.result.xml)
                          /\ IF stopAfterSanitize(url')
                               THEN pc' = "done" /\ ingested' = Undefined
                               ELSE pc' = "size" /\ ingested' = ingested
                     \/ pc' = "rejected" /\ UNCHANGED <<url, ingested>>
             ELSE /\ log' = Append(log, "sanitizeImageDataUrl")
                  /\ url' = input
                  /\ IF stopAfterSanitize(url')
                       THEN pc' = "done" /\ ingested' = Undefined
                       ELSE pc' = "size" /\ ingested' = ingested
    /\ UNCHANGED <<imageFile, clipboard, outsidePipeline>>
    /\ UNCHANGED <<entry, input, size, type, res, imageResult, before, target,
                   caught, notifications>>

\* const size = await deriveImageSize(url)
IngestDeriveImageSize ==
    /\ pc = "size"
    /\ log' = Append(log, "deriveImageSize")
    /\ \/ \E s \in ImageSizes : size' = s /\ pc' = "aspect"     \* img.onload
       \/ size' = size /\ pc' = "rejected"                       \* img.onerror
    /\ UNCHANGED <<imageFile, clipboard, outsidePipeline>>
    /\ UNCHANGED <<entry, input, url, ingested, type, res, imageResult,
                   before, target, caught, notifications>>

\* maybeGetAspectRatioFromImageDataUrl, then new ResizableImage and return
MaybeGetAspectRatioFromImageDataUrl ==
    /\ pc = "aspect" /\ entry \in {"file", "dataUrl"}
    /\ LET parsed == parseDataUrl(url)
       IN  IF parsed # Undefined /\ parsed.mediaType = SVG_MEDIA_TYPE
             THEN /\ log' = log \o <<"maybeGetAspectRatioFromImageDataUrl",
                                      "processSvg">>
                  /\ \/ \E processed \in ProcessSvgResponses :
                          LET ar == IF processed.status = "success"
                                      THEN processed.result.aspectRatio
                                      ELSE NoRatio
                          IN  /\ ingested' = ResizableImage(url, size.width,
                                                            size.height, ar)
                              /\ pc' = "ingested"
                     \/ pc' = "rejected" /\ ingested' = ingested
             ELSE /\ log' = Append(log, "maybeGetAspectRatioFromImageDataUrl")
                  /\ ingested' = ResizableImage(url, size.width, size.height,
                                                NoRatio)
                  /\ pc' = "ingested"
    /\ UNCHANGED <<imageFile, clipboard, outsidePipeline>>
    /\ UNCHANGED <<entry, input, url, size, type, res, imageResult, before,
                   target, caught, notifications>>

----------------------------------------------------------------------------
(* readAndSanitizeSvgXmlAsImage *)

\* `if (sanitized.status === "failure") return undefined`
stopAfterProcessSvg(sanitized) == sanitized.status = "failure"

\* await appCtx.api.processSvg({svgXml}) and the check of its status; the
\* aspect ratio of the answer is kept in size until the image is built
ProcessSvgXml ==
    /\ pc = "start" /\ entry = "svgXml"
    /\ log' = Append(log, "processSvg")
    /\ \/ \E sanitized \in ProcessSvgResponses :
            IF stopAfterProcessSvg(sanitized)
              THEN /\ pc' = "done" /\ ingested' = Undefined
                   /\ UNCHANGED <<url, size>>
              ELSE /\ url' = asSvgDataUrl(sanitized.result.xml)
                   /\ size' = [width |-> 0, height |-> 0,
                               aspectRatio |-> sanitized.result.aspectRatio]
                   /\ pc' = "sizeXml" /\ ingested' = ingested
       \/ pc' = "rejected" /\ UNCHANGED <<url, size, ingested>>
    /\ UNCHANGED <<imageFile, clipboard, outsidePipeline>>
    /\ UNCHANGED <<entry, input, type, res, imageResult, before, target,
                   caught, notifications>>

\* the svg-text ingestion asking processSvg again for the aspect ratio, as
\* the file ingestion does
SvgXmlDeriveImageSize_Refetch ==
    /\ pc = "sizeXml"
    /\ log' = log \o <<"deriveImageSize", "processSvg">>
    /\ \/ \E s \in ImageSizes :
            /\ size' = s
            /\ ingested' = ResizableImage(url, s.width, s.height,
                                          size.aspectRatio)
            /\ pc' = "ingested"
       \/ pc' = "rejected" /\ UNCHANGED <<size, ingested>>
    /\ UNCHANGED <<imageFile, clipboard, outsidePipeline>>
    /\ UNCHANGED <<entry, input, url, type, res, imageResult, before, target,
                   caught, notifications>>

\* const size = await deriveImageSize(url), then new ResizableImage and return
SvgXmlDeriveImageSize ==
    /\ pc = "sizeXml"
    /\ log' = Append(log, "deriveImageSize")
    /\ \/ \E s \in ImageSizes :
            /\ size' = s
            /\ ingested' = ResizableImage(url, s.width, s.height,
                                          size.aspectRatio)
            /\ pc' = "ingested"
       \/ pc' = "rejected" /\ UNCHANGED <<size, ingested>>
    /\ UNCHANGED <<imageFile, clipboard, outsidePipeline>>
    /\ UNCHANGED <<entry, input, url, type, res, imageResult, before, target,
                   caught, notifications>>

----------------------------------------------------------------------------
(* maybeUploadImage *)

\* imageDataUriToBlob(dataUri)
imageDataUriToBlob(dataUri) == [blobOf |-> dataUri]

\* every classified asset being uploaded
resTypeIsPicture_Always(r) == TRUE

\* `if (res.type === ImageAssetType.Picture)`
resTypeIsPicture(r) == r.type = Picture

\* deriveImageAssetTypeAndUri(image, {type}) and the branch on its result, up
\* to the first await
MaybeUploadImage ==
    /\ pc = "ingested"
    /\ \E t \in ImageAssetTypes, newLen \in Lens :
         LET r == deriveImageAssetTypeAndUri(ingested, t, newLen)
         IN  /\ type' = t
             /\ res' = r.res
             /\ notifications' = notifications \o r.notes
             /\ IF r.res = Undefined
                  THEN /\ pc' = "returned"
                       /\ log' = Append(log, "deriveImageAssetTypeAndUri")
                       /\ imageResult' = imageResult
                       /\ imageFile' = imageFile
                  ELSE IF resTypeIsPicture(r.res)
                  THEN /\ pc' = "upload"
                       /\ log' = log \o <<"deriveImageAssetTypeAndUri",
                                           "uploadImageFile">>
                       /\ imageResult' = imageResult
                       /\ imageFile' = imageDataUriToBlob(r.res.dataUri)
                  ELSE /\ pc' = "tryDownscale"
                       /\ log' = Append(log, "deriveImageAssetTypeAndUri")
                       /\ imageFile' = imageFile
                       /\ imageResult' =
                            ResizableImage(r.res.dataUri, ingested.width,
                                           ingested.height,
                                           scaledRoundedAspectRatio(ingested))
    /\ UNCHANGED <<clipboard, outsidePipeline>>
    /\ UNCHANGED <<entry, input, url, size, ingested, before, target, caught>>

\* await appCtx.api.uploadImageFile({imageFile: blob}) settles
UploadImageFile ==
    /\ pc = "upload"
    /\ \/ \E uploadedImage \in UploadedImages :
            /\ notifications' =
                 IF uploadedImage.warning
                   THEN Append(notifications, "warning")
                   ELSE notifications
            /\ imageResult' =
                 ResizableImage(
                   uploadedImage.dataUri,
                   IF uploadedImage.size # Undefined
                     THEN uploadedImage.size.width ELSE ingested.width,
                   IF uploadedImage.size # Undefined
                     THEN uploadedImage.size.height ELSE ingested.height,
                   IF uploadedImage.aspectRatio # NoRatio
                     THEN uploadedImage.aspectRatio
                     ELSE actualAspectRatio(ingested))
            /\ pc' = "returned"
       \/ pc' = "rejected" /\ UNCHANGED <<imageResult, notifications>>
    /\ UNCHANGED <<imageFile, clipboard, outsidePipeline>>
    /\ UNCHANGED <<entry, input, url, size, ingested, type, res, before,
                   target, caught, log>>

----------------------------------------------------------------------------
(* ResizableImage.tryDownscale, called on imageResult *)

\* the early return, or the targets and the call of downscale
TryDownscale ==
    /\ pc = "tryDownscale"
    /\ before' = imageResult
    /\ IF skipDownscale(imageResult)
         THEN /\ pc' = "returned"
              /\ log' = Append(log, "tryDownscale")
              /\ target' = target
         ELSE /\ pc' = "downscale"
              /\ log' = log \o <<"tryDownscale", "downscale">>
              /\ target' = [targetWidth |-> targetWidth(imageResult),
                            targetHeight |-> targetHeight(imageResult),
                            called |-> TRUE]
    /\ UNCHANGED <<imageFile, clipboard, outsidePipeline>>
    /\ UNCHANGED <<entry, input, url, size, ingested, type, res, imageResult,
                   caught, notifications>>

\* this.url = await downscale(...), then the call of deriveImageSize(this.url)
Downscale ==
    /\ pc = "downscale"
    /\ \/ \E u \in DownscaledUrls :
            /\ imageResult' = [imageResult EXCEPT !.url = u]
            /\ log' = Append(log, "deriveImageSize")
            /\ pc' = "downscaledSize"
            /\ caught' = caught
       \/ \* downscale rejects: the catch block logs and swallows it
          /\ caught' = TRUE
          /\ pc' = "returned"
          /\ UNCHANGED <<imageResult, log>>
    /\ UNCHANGED <<imageFile, clipboard, outsidePipeline>>
    /\ UNCHANGED <<entry, input, url, size, ingested, type, res, before,
                   target, notifications>>

\* const size = await deriveImageSize(this.url), then this.width, this.height
DownscaledDeriveImageSize ==
    /\ pc = "downscaledSize"
    /\ \/ \E s \in DownscaledSizes :
            /\ imageResult' = [imageResult EXCEPT !.width = s.width,
                                                  !.height = s.height]
            /\ caught' = caught
       \/ \* deriveImageSize rejects: the catch block logs and swallows it
          /\ caught' = TRUE
          /\ imageResult' = imageResult
    /\ pc' = "returned"
    /\ UNCHANGED <<imageFile, clipboard, outsidePipeline>>
    /\ UNCHANGED <<entry, input, url, size, ingested, type, res, before,
                   target, notifications, log>>

----------------------------------------------------------------------------

\* what maybeUploadImage returns once it has returned: {} or
\* {imageResult, opts}
EmptyResult == [empty |-> TRUE]
maybeUploadImageResult ==
    IF res = Undefined
      THEN EmptyResult
      ELSE [imageResult |-> imageResult,
            opts |-> [type |-> res.type, iconColor |-> res.iconColor]]

----------------------------------------------------------------------------
(* readImageFromClipboard *)

\* the image item being looked for among the plain-text items
hasImageItem_TextFirst(data) == data.imageItem /\ data.text = ""

\* find(clipboardData.items, (x) => x.type.indexOf("image") >= 0)
hasImageItem(data) == data.imageItem

\* textContent.includes("xmlns=")
includesXmlns(textContent) == textContent = "svgNs"

\* textContent.replace("<svg", '<svg xmlns="http://www.w3.org/2000/svg"')
injectXmlns(textContent) ==
    IF textContent = "svgNoNs" THEN "svgNs" ELSE textContent

\* readImageFromClipboard up to its first await: the blob of the image item
\* goes to readAndSanitizeFileAsImage, or else the plain text goes to
\* readAndSanitizeSvgXmlAsImage; what that call returns is what
\* readImageFromClipboard returns
ReadImageFromClipboard ==
    /\ pc = "clipboard"
    /\ IF hasImageItem(clipboard)
         THEN /\ log' = Append(log, "getAsFile")
              /\ IF clipboard.blob # Undefined
                   THEN /\ entry' = "file"
                        /\ input' = clipboard.blob
                        /\ pc' = "start"
                        /\ ingested' = ingested
                   ELSE /\ pc' = "done"
                        /\ ingested' = Undefined
                        /\ UNCHANGED <<entry, input>>
         ELSE /\ log' = Append(log, "getData")
              /\ LET textContent == clipboard.text
                 IN  IF textContent # ""
                       THEN /\ entry' = "svgXml"
                            /\ input' =
                                 PlainUrl(IF includesXmlns(textContent)
                                            THEN textContent
                                            ELSE injectXmlns(textContent),
                                          DownscaleImageSizeThreshold - 1)
                            /\ pc' = "start"
                            /\ ingested' = ingested
                       ELSE /\ pc' = "done"
                            /\ ingested' = Undefined
                            /\ UNCHANGED <<entry, input>>
    /\ UNCHANGED <<url, size, type, res, imageResult, before, target, caught,
                   notifications, imageFile, clipboard, outsidePipeline>>

----------------------------------------------------------------------------

Next ==
    \/ ReadImageFromClipboard
    \/ ReadUploadedFileAsDataUrl
    \/ SanitizeImageDataUrl
    \/ IngestDeriveImageSize
    \/ MaybeGetAspectRatioFromImageDataUrl
    \/ ProcessSvgXml
    \/ SvgXmlDeriveImageSize
    \/ MaybeUploadImage
    \/ UploadImageFile
    \/ TryDownscale
    \/ Downscale
    \/ DownscaledDeriveImageSize

Spec == Init /\ [][Next]_vars

----------------------------------------------------------------------------
(* isAnimatedGif *)

\* the image pipeline is not running
PipelineIdle ==
    /\ pc = "idle" /\ entry = "none" /\ input = Undefined
    /\ clipboard = Undefined /\ imageFile = Undefined
    /\ url = Undefined /\ size = NoSize /\ ingested = Pending
    /\ type = NoType /\ res = Undefined /\ imageResult = Undefined
    /\ before = Undefined /\ target = NoTarget /\ caught = FALSE
    /\ notifications = <<>> /\ log = <<>>

HEADER_LEN == 6
LOGICAL_SCREEN_DESC_LEN == 7

\* a 16-bit value as its two bytes, low byte first (the order of the file)
LowHigh(n) == <<n % 256, n \div 256>>

\* The GIFs of the model.  packed is the packed byte of the logical screen
\* descriptor; the first block after the optional global color table is a
\* Graphics Control Extension with the given delay (hasGce) or the image
\* descriptor itself, whose left, top and width are given.
Gifs == [packed : {0, 128, 129}, hasGce : BOOLEAN, delay : {0, 1, 256},
         left : {0, 1, 2}, top : {0, 256}, width : {1, 256}]

\* size in bytes of the global color table the packed byte announces
ColorTableLen(packed) ==
    IF packed >= 128 THEN 3 * 2 ^ ((packed % 8) + 1) ELSE 0

\* the bytes of the file (what window.atob of the payload gives)
GifBytes(g) ==
    <<71, 73, 70, 56, 57, 97>>                          \* "GIF89a"
      \o LowHigh(g.width) \o LowHigh(1) \o <<g.packed, 0, 0>>
      \o [i \in 1..ColorTableLen(g.packed) |-> 255]
      \o (IF g.hasGce
            THEN <<33, 249, 4, 0>> \o LowHigh(g.delay) \o <<0, 0>>
            ELSE <<>>)
      \o <<44>> \o LowHigh(g.left) \o LowHigh(g.top)
      \o LowHigh(g.width) \o LowHigh(1) \o <<0>>
      \o <<2, 2, 76, 1, 0, 59>>

\* a & b on non-negative integers
RECURSIVE BitAnd(_, _)
BitAnd(a, b) ==
    IF a = 0 \/ b = 0
      THEN 0
      ELSE (a % 2) * (b % 2) + 2 * BitAnd(a \div 2, b \div 2)

\* `extensionIntroducer & 0x21 && graphicsConrolLabel & 0xf9`
isGraphicsControl(extensionIntroducer, graphicsConrolLabel) ==
    /\ BitAnd(extensionIntroducer, 33) # 0
    /\ BitAnd(graphicsConrolLabel, 249) # 0

\* isAnimatedGif on the decoded bytes: "true", "false", or "RangeError" when
\* the DataView is read outside the buffer
isAnimatedGif(bytes) ==
    LET base == HEADER_LEN + LOGICAL_SCREEN_DESC_LEN - 3
        len == Len(bytes)
        getUint8(o) == bytes[base + o + 1]
        inRange(o, n) == base + o + n <= len
    IN  IF base > len \/ ~inRange(0, 1)
          THEN "RangeError"
          ELSE
            LET globalColorTable == getUint8(0)
                globalColorTableSize ==
                    IF BitAnd(globalColorTable, 128) # 0
                      THEN 3 * 2 ^ (BitAnd(globalColorTable, 7) + 1)
                      ELSE 0
                offset == 3 + globalColorTableSize
            IN  IF ~inRange(offset, 2)
                  THEN "RangeError"
                ELSE IF isGraphicsControl(getUint8(offset),
                                          getUint8(offset + 1))
                  THEN IF ~inRange(offset + 4, 2)
                         THEN "RangeError"
                         ELSE LET delayTime == 256 * getUint8(offset + 4)
                                                 + getUint8(offset + 5)
                              IN  IF delayTime > 0 THEN "true" ELSE "false"
                ELSE "false"

InitGif ==
    /\ PipelineIdle
    /\ FileInputIdle
    /\ HookIdle
    /\ gif \in Gifs
    /\ gifResult = "pending"

IsAnimatedGif ==
    /\ gifResult = "pending"
    /\ gifResult' = isAnimatedGif(GifBytes(gif))
    /\ UNCHANGED <<gif, pipelineVars, fileInputVars, hookVars>>

NextGif == IsAnimatedGif

SpecGif == InitGif /\ [][NextGif]_vars

----------------------------------------------------------------------------
(* getUploadedFile *)

\* the files a user can pick
FileNames == {"a.json"}

InitUpload ==
    /\ PipelineIdle
    /\ GifIdle
    /\ HookIdle
    /\ FileInputIdle

\* getUploadedFile(f): handleFileChange of this call is bound to "change" and
\* the file chooser is opened
GetUploadedFile ==
    /\ nCalls < MaxUploadCalls
    /\ nCalls' = nCalls + 1
    /\ handlers' = handlers \cup {nCalls + 1}
    /\ UNCHANGED <<nChanges, files, reading, consuming, invoked, finished>>
    /\ UNCHANGED <<pipelineVars, gifVars, hookVars>>

\* A change event of the input: the selection becomes sel (a file other
\* than the selected one, or nothing) and every bound handleFileChange runs
\* up to its first await.  With a file selected each starts
\* readUploadedFileAsText; with none each unbinds itself and clears the input.
ChangeEvent ==
    /\ nChanges < MaxChangeEvents
    /\ nChanges' = nChanges + 1
    /\ \E sel \in {""} \cup FileNames :
         /\ sel # "" => sel # files
         /\ IF sel # ""
              THEN /\ files' = sel
                   /\ reading' = [c \in UploadCalls |->
                                    IF c \in handlers THEN reading[c] + 1
                                                      ELSE reading[c]]
                   /\ UNCHANGED <<handlers, finished>>
              ELSE /\ files' = ""
                   /\ handlers' = {}
                   /\ finished' = [c \in UploadCalls |->
                                     IF c \in handlers THEN finished[c] + 1
                                                       ELSE finished[c]]
                   /\ reading' = reading
    /\ UNCHANGED <<nCalls, consuming, invoked>>
    /\ UNCHANGED <<pipelineVars, gifVars, hookVars>>

\* await readUploadedFileAsText(files[0]) settles for a handler of call c:
\* r.onload, and f(data) is called; or r.onerror, and the handler throws
ReadSettles ==
    \E c \in UploadCalls :
       /\ reading[c] > 0
       /\ reading' = [reading EXCEPT ![c] = @ - 1]
       /\ \/ /\ invoked' = [invoked EXCEPT ![c] = @ + 1]
             /\ consuming' = [consuming EXCEPT ![c] = @ + 1]
             /\ finished' = finished
          \/ /\ finished' = [finished EXCEPT ![c] = @ + 1]
             /\ UNCHANGED <<invoked, consuming>>
       /\ UNCHANGED <<nCalls, nChanges, files, handlers>>
       /\ UNCHANGED <<pipelineVars, gifVars, hookVars>>

\* await f(data) settles for a handler of call c: it resolves, and the
\* handler unbinds itself and clears the input; or it rejects, and the
\* handler throws
ConsumerSettles ==
    \E c \in UploadCalls :
       /\ consuming[c] > 0
       /\ consuming' = [consuming EXCEPT ![c] = @ - 1]
       /\ finished' = [finished EXCEPT ![c] = @ + 1]
       /\ \/ /\ handlers' = handlers \ {c}
             /\ files' = ""
          \/ UNCHANGED <<handlers, files>>
       /\ UNCHANGED <<nCalls, nChanges, reading, invoked>>
       /\ UNCHANGED <<pipelineVars, gifVars, hookVars>>

NextUpload ==
    \/ GetUploadedFile
    \/ ChangeEvent
    \/ ReadSettles
    \/ ConsumerSettles

SpecUpload == InitUpload /\ [][NextUpload]_vars

----------------------------------------------------------------------------
(* useToggleDisplayed, useDisplayed *)

\* mount: wasVisibleRef = useRef(false), and the effect runs for the first
\* time on whatever getDom yields
InitHook ==
    /\ PipelineIdle
    /\ GifIdle
    /\ FileInputIdle
    /\ observed \in Doms \cup {NoDom}
    /\ displayed \in [Doms -> BOOLEAN]
    /\ wasVisibleRef = FALSE
    /\ callbackArgs = <<>>
    /\ observations = <<>>

\* !!dom.offsetParent changes: an ancestor's display is set to none or back
SetDisplay ==
    \E d \in Doms, b \in BOOLEAN :
       /\ displayed[d] # b
       /\ displayed' = [displayed EXCEPT ![d] = b]
       /\ UNCHANGED <<observed, wasVisibleRef, callbackArgs, observations>>
       /\ UNCHANGED <<pipelineVars, gifVars, fileInputVars>>

\* getDom or callback changed: the cleanup unobserves the old dom and the
\* effect observes what getDom yields now, or nothing when it is null
Resubscribe ==
    \E d \in Doms \cup {NoDom} :
       /\ observed' = d
       /\ UNCHANGED <<displayed, wasVisibleRef, callbackArgs, observations>>
       /\ UNCHANGED <<pipelineVars, gifVars, fileInputVars>>

stateToggled_Always(was, isVisible) == TRUE
stateToggled(was, isVisible) == was # isVisible

\* the IntersectionObserver notifies: checkVisible()
Notify ==
    /\ observed # NoDom
    /\ Len(observations) < MaxNotifications
    /\ LET isVisible == displayed[observed]
       IN /\ callbackArgs' = IF stateToggled(wasVisibleRef, isVisible)
                                THEN Append(callbackArgs, isVisible)
                                ELSE callbackArgs
          /\ wasVisibleRef' = isVisible
          /\ observations' = Append(observations, isVisible)
    /\ UNCHANGED <<observed, displayed>>
    /\ UNCHANGED <<pipelineVars, gifVars, fileInputVars>>

NextHook ==
    \/ SetDisplay
    \/ Resubscribe
    \/ Notify

SpecHook == InitHook /\ [][NextHook]_vars

----------------------------------------------------------------------------
(* Vocabulary of the properties *)

Called(f) == \E i \in 1..Len(log) : log[i] = f
CountCalls(f) == Cardinality({i \in 1..Len(log) : log[i] = f})
FirstCall(f) == CHOOSE i \in 1..Len(log) :
                    log[i] = f /\ \A j \in 1..(i - 1) : log[j] # f

\* deriveImageAssetTypeAndUri has been applied to the ingested image
Classified == Called("deriveImageAssetTypeAndUri")
ClassifiedSvg ==
    /\ Classified
    /\ ingested.url.kind \in {"svg", "svgParams"}
ClassifiedNonSvg ==
    /\ Classified
    /\ ingested.url.kind = "other"
\* the gathered color set of the classified svg
colorSet == ingested.url.colors
TwoLiteralColors ==
    /\ Cardinality(colorSet \cap LiteralColors) >= 2
    /\ currentcolor \notin colorSet
IsIconResult == res # Undefined /\ res.type = Icon
IsPictureResult == res # Undefined /\ res.type = Picture
ErrorNotified(m) == \E i \in 1..Len(notifications) : notifications[i] = m
NoErrorNotified ==
    \A i \in 1..Len(notifications) :
       notifications[i] \notin {ErrLoading, ErrOneColor, ErrSvgOnly}

----------------------------------------------------------------------------
(* Properties *)

\* C1: an svg with two distinct literal colors and no currentcolor,
\* classified with requested type Icon, yields undefined and the error
\* notification "Can only use svg images with one color as icons".
C1_TwoColorIconRequestRejected ==
    (ClassifiedSvg /\ type = Icon /\ TwoLiteralColors)
       => (res = Undefined /\ ErrorNotified(ErrOneColor))

\* C2: whenever the downscale attempt fails at any step, tryDownscale
\* completes without throwing and url, width and height of the image equal
\* their values before the call.
C2_FailedDownscaleLeavesImageUntouched ==
    caught => /\ pc = "returned"
              /\ imageResult.url = before.url
              /\ imageResult.width = before.width
              /\ imageResult.height = before.height

\* C3: for svg content and a requested type other than Picture, the result
\* is an Icon if and only if Icon was requested, or the color set contains
\* currentcolor, or the color set has at most one element and that element
\* is not a url(...) reference.
C3_IconIffRule ==
    (ClassifiedSvg /\ type # Picture)
       => (IsIconResult <=>
             \/ type = Icon
             \/ currentcolor \in colorSet
             \/ /\ Cardinality(colorSet) <= 1
                /\ \A c \in colorSet : c.form # "url")

\* the color set is one url(...) reference, no type is requested, and the
\* result is a Picture
C3_Witness ==
    /\ ClassifiedSvg /\ type = NoType
    /\ colorSet \in {{u} : u \in UrlColors}
    /\ IsPictureResult

C5_CurrentColorIconAsStated ==
    (ClassifiedSvg /\ colorSet = {currentcolor})
       => /\ IsIconResult
          /\ res.iconColor = Undefined
          /\ ~res.dataUri.cleared

\* C5 amended: an svg whose only color is currentcolor yields, for a
\* requested type of none or Icon, an Icon without iconColor whose colors
\* have not been cleared; with Picture requested it is returned as a
\* Picture, its colors not cleared either.
C5_CurrentColorIcon ==
    (ClassifiedSvg /\ colorSet = {currentcolor})
       => /\ res # Undefined
          /\ res.type = (IF type = Picture THEN Picture ELSE Icon)
          /\ res.iconColor = Undefined
          /\ ~res.dataUri.cleared

\* only currentcolor, Icon requested, classified as an Icon
C5_Witness ==
    /\ ClassifiedSvg /\ type = Icon
    /\ colorSet = {currentcolor}
    /\ IsIconResult
    /\ res.dataUri.textSized

\* C6: an svg with two or more distinct literal colors, no currentcolor and
\* no requested type yields a Picture whose dataUri is the url of the input
\* image, and no error notification.
C6_MultiColorPictureKeepsUri ==
    (ClassifiedSvg /\ type = NoType /\ TwoLiteralColors)
       => /\ IsPictureResult
          /\ res.dataUri = ingested.url
          /\ NoErrorNotified

C6_Witness ==
    /\ ClassifiedSvg /\ type = NoType /\ TwoLiteralColors
    /\ IsPictureResult
    /\ pc = "upload"

\* C7: parseable content that is not svg yields, with no requested type, a
\* Picture with the original data URI and no notification; with requested
\* type Icon, undefined and the notification "Can only use svg images as
\* icons"; it is never classified as an Icon.
C7_NonSvgNeverIcon ==
    ClassifiedNonSvg
       => /\ type = NoType => /\ IsPictureResult
                              /\ res.dataUri = ingested.url
                              /\ NoErrorNotified
          /\ type = Icon => /\ res = Undefined
                            /\ notifications = <<ErrSvgOnly>>
          /\ ~IsIconResult

C7_Witness ==
    /\ ClassifiedNonSvg /\ type = Icon
    /\ res = Undefined
    /\ pc = "returned"

\* tryDownscale has been called on imageResult
DownscaleConsidered == before # Undefined

Max(a, b) == IF a > b THEN a ELSE b

\* C9: whenever downscale is called, the larger of width and height, clamped
\* to at most 4096, is the target of its dimension and the other target is
\* 0; width 5000 and height 2000 give the target (4096, 0); exactly one of
\* the two targets is non-zero and it never exceeds 4096.
C9_TargetClampsLargerDimension ==
    target.called
       => LET w == before.width
              h == before.height
              clamped == Min(Max(w, h), 4096)
          IN  /\ w > h => /\ target.targetWidth = clamped
                          /\ target.targetHeight = 0
              /\ h > w => /\ target.targetHeight = clamped
                          /\ target.targetWidth = 0
              /\ (w = 5000 /\ h = 2000)
                    => (target.targetWidth = 4096 /\ target.targetHeight = 0)
              /\ (target.targetWidth = 0) # (target.targetHeight = 0)
              /\ target.targetWidth <= 4096
              /\ target.targetHeight <= 4096

\* the example of the claim
C9_Witness ==
    /\ target.called
    /\ before.width = 5000 /\ before.height = 2000
    /\ target.targetWidth = MaxImageDim /\ target.targetHeight = 0

\* the sanitizer stage of the entry point taken
SanitizerCall == IF entry = "svgXml" THEN "processSvg"
                                     ELSE "sanitizeImageDataUrl"

C11_EachRemoteApiOnceAsStated ==
    /\ CountCalls("processSvg") <= 1
    /\ CountCalls("uploadImageFile") <= 1

\* C11 amended: no remote call is retried.  readAndSanitizeSvgXmlAsImage
\* calls processSvg once and maybeUploadImage calls uploadImageFile at most
\* once; readAndSanitizeFileAsImage calls processSvg at most twice, the
\* second time (for the aspect ratio of the sanitized svg) only after the
\* first call succeeded, and after a failed or rejected call no remote call
\* follows in that invocation.
C11_NoRemoteCallRetried ==
    /\ CountCalls("processSvg") <= 2
    /\ CountCalls("uploadImageFile") <= 1
    /\ entry = "svgXml" => CountCalls("processSvg") <= 1
    /\ CountCalls("processSvg") = 2
         => /\ entry \in {"file", "dataUrl"}
            /\ url # Undefined
            /\ parseDataUrl(url) # Undefined
            /\ parseDataUrl(url).mediaType = SVG_MEDIA_TYPE
    /\ (Called("processSvg") /\ url = Undefined)
         => (CountCalls("processSvg") = 1 /\ ~Called("uploadImageFile"))
    /\ (pc = "rejected" /\ ingested \in {Pending, Undefined})
         => ~Called("uploadImageFile")

\* the sanitization of a data URL succeeded and processSvg ran once more
C11_Witness ==
    /\ entry = "dataUrl"
    /\ CountCalls("processSvg") = 2
    /\ ingested \notin {Pending, Undefined}


\* C12: maybeUploadImage calls the upload API if and only if the classified
\* type is Picture, then exactly once and with the blob of the classified
\* data URI; for an Icon nothing is uploaded and the result is the classified
\* data URI with the width and height of the input, after tryDownscale ran on
\* it; when the classification is undefined nothing is uploaded or
\* downscaled and the result is empty.
C12_UploadIffPicture ==
    Classified
       => /\ Called("uploadImageFile") <=> IsPictureResult
          /\ IsPictureResult
               => /\ CountCalls("uploadImageFile") = 1
                  /\ imageFile = [blobOf |-> res.dataUri]
                  /\ ~Called("tryDownscale")
          /\ IsIconResult
               => /\ imageFile = Undefined
                  /\ imageResult # Undefined
                  /\ pc = "returned"
                       => /\ Called("tryDownscale")
                          /\ before.url = res.dataUri
                          /\ before.width = ingested.width
                          /\ before.height = ingested.height
                          /\ maybeUploadImageResult.imageResult = imageResult
                          /\ maybeUploadImageResult.opts.type = Icon
                          /\ ~Called("downscale") => imageResult = before
          /\ res = Undefined
               => /\ ~Called("tryDownscale")
                  /\ imageFile = Undefined
                  /\ pc = "returned"
                  /\ maybeUploadImageResult = [empty |-> TRUE]
                  /\ imageResult = Undefined

\* an Icon came back from maybeUploadImage with nothing uploaded
C12_Witness ==
    /\ Classified /\ IsIconResult
    /\ pc = "returned"
    /\ Called("tryDownscale")
    /\ ~Called("uploadImageFile")


\* readImageFromClipboard was the entry point and has run its first part
ClipboardRead == clipboard # Undefined /\ pc # "clipboard"

\* C14: when the clipboard carries an image item, the result comes only from
\* ingesting its blob: the plain text is never read, patched or sent to the
\* svg sanitization, also when the blob is missing or its ingestion yields
\* no asset, and then undefined is returned; the text is read only when no
\* image item exists.
C14_ImageItemPreferredOverText ==
    ClipboardRead
       => /\ clipboard.imageItem
               => /\ ~Called("getData")
                  /\ log[1] = "getAsFile"
                  /\ entry # "svgXml"
                  /\ clipboard.blob = Undefined
                       => /\ log = <<"getAsFile">>
                          /\ pc = "done"
                          /\ ingested = Undefined
                  /\ clipboard.blob # Undefined
                       => /\ entry = "file"
                          /\ input = clipboard.blob
                          /\ url = Undefined
                               => CountCalls("processSvg")
                                    <= (IF clipboard.blob.kind = "svg"
                                          THEN 1 ELSE 0)
          /\ ~clipboard.imageItem
               => /\ ~Called("getAsFile")
                  /\ log[1] = "getData"
                  /\ entry \in {"clipboard", "svgXml"}
          /\ Called("getData") => ~clipboard.imageItem

\* an image item next to svg text: the blob's sanitization failed, undefined
\* is returned and the text was not touched
C14_Witness ==
    /\ ClipboardRead
    /\ clipboard.imageItem /\ clipboard.text = "svgNoNs"
    /\ clipboard.blob # Undefined
    /\ pc = "done" /\ ingested = Undefined
    /\ log = <<"getAsFile", "readUploadedFileAsDataUrl",
               "sanitizeImageDataUrl", "processSvg">>


\* the first block of the GIF is a Graphics Control Extension without delay,
\* or the image descriptor: a still image
NonAnimatedGif == (gif.hasGce /\ gif.delay = 0) \/ ~gif.hasGce

\* C13: isAnimatedGif is false for every valid non-animated GIF (header,
\* logical screen descriptor, optional global color table, then a Graphics
\* Control Extension with delay 0 or directly an image descriptor) and true
\* for every GIF whose Graphics Control Extension has a delay above 0.
C13_AnimatedIffDelay ==
    gifResult \notin {"idle", "pending"}
       => /\ NonAnimatedGif => gifResult = "false"
          /\ (gif.hasGce /\ gif.delay > 0) => gifResult = "true"


\* C15: once a change event has been handled for a getUploadedFile call, its
\* handler is unbound and the selection was cleared, so the consumer f of a
\* call is invoked at most once, whatever the sequence of calls and change
\* events, change events without a file and rejecting reads or consumers
\* included.
C15_ConsumerOncePerCall ==
    \A c \in UploadCalls :
       /\ invoked[c] <= 1
       /\ finished[c] > 0 => c \notin handlers


\* the observations that differ from the one before them, the first one
\* compared with last
RECURSIVE Toggles(_, _)
Toggles(obs, last) ==
    IF obs = <<>> THEN <<>>
    ELSE IF Head(obs) # last
         THEN <<Head(obs)>> \o Toggles(Tail(obs), Head(obs))
         ELSE Toggles(Tail(obs), Head(obs))

\* C16: over any sequence of notifications and re-subscriptions the callback
\* is invoked exactly for the notifications that observe a displayed state
\* other than the last recorded one (false before the first), so the first
\* invocation is with true, successive invocations alternate, and a
\* notification observing the same state as the previous one invokes nothing.
C16_CallbackOnlyOnToggle ==
    /\ callbackArgs = Toggles(observations, FALSE)
    /\ callbackArgs # <<>> => callbackArgs[1] = TRUE
    /\ \A i \in 1..(Len(callbackArgs) - 1) : callbackArgs[i] # callbackArgs[i + 1]
    /\ observations # <<>> => wasVisibleRef = observations[Len(observations)]

\* four notifications, one of them repeating the state before it, and three
\* invocations
C16_Witness ==
    /\ Len(observations) = 4
    /\ Len(callbackArgs) = 3
    /\ \E i \in 1..3 : observations[i] = observations[i + 1]

============================================================================
